---------------------------- MODULE Spec2Model ----------------------------
(***************************************************************************)
(* Model of the heatmap page's polling scheduler (AdjustableUpdater,       *)
(* helpers/adjustableUpdater.ts) and of the page wiring that drives it     *)
(* (index.ts).                                                             *)
(*                                                                         *)
(* Time is counted in milliseconds.  A JavaScript number of seconds is a   *)
(* record [kind, v]: kind is "finite", "NaN", "Infinity" or "-Infinity",   *)
(* and for a finite number v counts hundredths of a second.                *)
(***************************************************************************)
EXTENDS Integers, FiniteSets, Sequences, TLC

\* ------------------------------------------------------------------ bounds

\* Most browser timers alive at once.
MaxTimers == 3
\* Most callback executions in flight at once (the code allows one).
MaxInflight == 2
\* Milliseconds that pass in one Advance step.
Quantum == 50
\* Most heatmap queries the page issues in one run.
MaxQueries == 3
\* Largest seconds value, in hundredths, tried on the interval clamp.
MaxSeconds == 60
\* Largest coordinate (either sign) of a query given to getMockHeatmap.
MaxCoord == 2
\* Largest tile step (either sign) of a query given to getMockHeatmap.
MaxStep == 2
\* Largest whole degree (either sign) of a point given to makeRequest.
MaxDegree == 1
\* Largest column / row count given to makeRequest.
MaxCount == 2
\* Significant bits of a coordinate (the program's numbers have 53).
SigBits == 4
\* Bits below the binary point of a coordinate.
FracBits == 2
\* Largest latitude, in units of 2^-FracBits, of a viewport that is panned.
MaxPanLat == 32
\* Largest distance, in the same units, the map is panned by.
MaxShift == 8
\* Largest number of tiles of a heatmap handed to renderHeatmap.
MaxTiles == 2
\* Largest number of renderHeatmap calls on the overlay by itself.
MaxRenders == 3
\* Most timers and executions the user's calls leave live at once under the
\* fair scheduling of LiveSpec.
MaxLive == 2

\* --------------------------------------------------------------- constants

\* `timer: number | null = null`: the null handle.
NullTimer == 0
\* `parseInt(...) || 1000`: the interval, in ms, of an empty or zero input.
DefaultIntervalMs == 1000

\* ----------------------------------------------------------------- numbers

Fin(n) == [kind |-> "finite", v |-> n]
NaN == [kind |-> "NaN", v |-> 0]
PosInf == [kind |-> "Infinity", v |-> 0]
NegInf == [kind |-> "-Infinity", v |-> 0]

\* The seconds values handed to the constructor and to setIntervalSeconds:
\* -1 s, 0 s, 0.02 s, 0.1 s, NaN and Infinity.
SecondsInputs == {Fin(-100), Fin(0), Fin(2), Fin(10), NaN, PosInf}

isFinite(x) == x.kind = "finite"

\* seconds * 1000, for a finite number of seconds: milliseconds.
TimesThousand(x) == x.v * 10

Min(a, b) == IF a <= b THEN a ELSE b
Max(a, b) == IF a >= b THEN a ELSE b

\* ------------------------------------------------------------------- state

VARIABLES
    intervalMs,   \* AdjustableUpdater.intervalMs
    timer,        \* AdjustableUpdater.timer: a timer handle or NullTimer
    running,      \* AdjustableUpdater.running
    executing,    \* AdjustableUpdater.executing
    disposed,     \* AdjustableUpdater.disposed
    pending,      \* the browser's timers not yet fired: handle -> ms left
    inflight,     \* callback executions begun and not yet settled
    began,        \* the last step invoked the callback
    lastOp,       \* the handler the last step ran
    sinceDone,    \* ms since the last execution finished (capped)
    midFlight,    \* progress of "interval changed during an execution"
    failure,      \* what became of a callback failure in the last step
    control,      \* index.ts: the text of the #update-interval input
    created,      \* index.ts: `updater` is not null
    issued,       \* index.ts: heatmap queries issued so far
    outstanding,  \* index.ts: queries issued and not yet answered
    arg,          \* the seconds value last handed to the poller (ClampSpec)
    points,       \* the caller's two point objects, before and after a call
    req,          \* the heatmap request built or given
    tiles,        \* what getMockHeatmap returned for req
    earlier,      \* what it returned before the map was panned
    polygonRemoveCallbacks,  \* 2gis/heatmap.ts: one entry per callback,
                             \* the polygon it destroys
    polygons,     \* the polygons created so far on the map
    lastRender,   \* what the latest renderHeatmap call was given and drew
    answer,       \* how the promise of the latest settled getHeatmap ended
    slider        \* TimeSlider: options.type and this.state

pollerVars == <<intervalMs, timer, running, executing, disposed, pending,
                inflight, began, lastOp, sinceDone, midFlight, failure>>
pageVars == <<control, created, issued, outstanding>>
calcVars == <<arg, points, req, tiles, earlier>>
overlayVars == <<polygonRemoveCallbacks, polygons, lastRender, answer>>
vars == <<pollerVars, pageVars, calcVars, overlayVars, slider>>

TimerIds == 1..(MaxTimers + 2)

\* The map before any renderHeatmap call and any answer of getHeatmap.
NoOverlay ==
    /\ polygonRemoveCallbacks = <<>>
    /\ polygons = <<>>
    /\ lastRender = <<>>
    /\ answer = <<>>

\* No TimeSlider is under test.
NoSlider == slider = <<>>

\* The poller and the timer table as one value, so that a handler's code is a
\* composition of the methods it calls.
Self == [intervalMs |-> intervalMs, timer |-> timer, running |-> running,
         executing |-> executing, disposed |-> disposed, pending |-> pending,
         inflight |-> inflight, began |-> FALSE, failure |-> "none"]

\* ---------------------------------------------------------- browser timers

\* window.setTimeout(f, ms): a handle no live timer has and the poller does
\* not hold (handles the program can no longer name are reused).
FreshId(s) == CHOOSE i \in TimerIds :
                /\ i \notin DOMAIN s.pending
                /\ i # s.timer
                /\ \A j \in TimerIds :
                     (j \notin DOMAIN s.pending /\ j # s.timer) => i <= j

setTimeout(table, id, ms) ==
    [i \in DOMAIN table \cup {id} |-> IF i = id THEN ms ELSE table[i]]

\* clearTimeout(id): nothing happens for a handle that is not pending.
clearTimeout(table, id) ==
    [i \in DOMAIN table \ {id} |-> table[i]]

\* -------------------------------------------------------- AdjustableUpdater

\* normalizeInterval() that tests `seconds < 0`.
normalizeInterval_ZeroPasses(seconds) ==
    IF ~isFinite(seconds) \/ seconds.v < 0 THEN Fin(5) ELSE seconds

normalizeInterval(seconds) ==
    IF ~isFinite(seconds) \/ seconds.v <= 0 THEN Fin(5) ELSE seconds

schedule(s) ==
    IF ~s.running \/ s.disposed THEN s
    ELSE LET id == FreshId(s) IN
         [s EXCEPT !.timer = id,
                   !.pending = setTimeout(s.pending, id, s.intervalMs)]

\* A catch block that logs the error and throws it again.
catchError_Rethrows(s) == [s EXCEPT !.failure = "escaped"]

\* The catch block of run(): the error is logged and goes no further.
catchError(s) == [s EXCEPT !.failure = "caught"]

\* run() without its `if (this.executing)` branch.
run_Overlapping(s, cb) ==
    IF ~s.running \/ s.disposed THEN s
    ELSE LET s1 == [s EXCEPT !.executing = TRUE, !.began = TRUE] IN
         IF cb = "throws"
         THEN schedule([catchError(s1) EXCEPT !.executing = FALSE])
         ELSE [s1 EXCEPT !.inflight = @ + 1]

\* The finally block of run().
finish_NoReschedule(s) == [s EXCEPT !.executing = FALSE]

finish(s) == schedule([s EXCEPT !.executing = FALSE])

\* run() that tests `disposed` only.
run_IgnoresRunning(s, cb) ==
    IF s.disposed THEN s
    ELSE IF s.executing THEN schedule(s)
    ELSE LET s1 == [s EXCEPT !.executing = TRUE, !.began = TRUE] IN
         IF cb = "throws" THEN finish(catchError(s1))
         ELSE [s1 EXCEPT !.inflight = @ + 1]

\* run() up to its await.  cb is what the callback does when invoked:
\* "async" (it returns, and the await resumes in a later microtask) or
\* "throws" (it throws synchronously, and catch/finally run at once).
run(s, cb) ==
    IF ~s.running \/ s.disposed THEN s
    ELSE IF s.executing THEN schedule(s)
    ELSE LET s1 == [s EXCEPT !.executing = TRUE, !.began = TRUE] IN
         IF cb = "throws" THEN finish(catchError(s1))
         ELSE [s1 EXCEPT !.inflight = @ + 1]

\* start() that tests `running` only.
start_IgnoresDisposed(s, immediate, cb) ==
    IF s.running THEN s
    ELSE LET s1 == [s EXCEPT !.running = TRUE] IN
         IF immediate THEN run(s1, cb) ELSE schedule(s1)

\* start() that tests `disposed` only.
start_NoRunningCheck(s, immediate, cb) ==
    IF s.disposed THEN s
    ELSE LET s1 == [s EXCEPT !.running = TRUE] IN
         IF immediate THEN run(s1, cb) ELSE schedule(s1)

start(s, immediate, cb) ==
    IF s.disposed \/ s.running THEN s
    ELSE LET s1 == [s EXCEPT !.running = TRUE] IN
         IF immediate THEN run(s1, cb) ELSE schedule(s1)

\* stop() that clears the timer and leaves `running` as it is.
stop_OnlyClearsTimer(s) ==
    IF s.timer # NullTimer
    THEN [s EXCEPT !.pending = clearTimeout(s.pending, s.timer),
                   !.timer = NullTimer]
    ELSE s

stop(s) ==
    LET s1 == [s EXCEPT !.running = FALSE] IN
    IF s1.timer # NullTimer
    THEN [s1 EXCEPT !.pending = clearTimeout(s1.pending, s1.timer),
                    !.timer = NullTimer]
    ELSE s1

\* setIntervalSeconds() without its clearTimeout.
setIntervalSeconds_NoClear(s, seconds) ==
    LET ms == TimesThousand(normalizeInterval(seconds)) IN
    IF ms = s.intervalMs THEN s
    ELSE LET s1 == [s EXCEPT !.intervalMs = ms] IN
         IF s1.running THEN schedule(s1) ELSE s1

setIntervalSeconds(s, seconds) ==
    LET ms == TimesThousand(normalizeInterval(seconds)) IN
    IF ms = s.intervalMs THEN s
    ELSE LET s1 == [s EXCEPT !.intervalMs = ms] IN
         IF s1.running
         THEN schedule(IF s1.timer # NullTimer
                       THEN [s1 EXCEPT !.pending =
                                        clearTimeout(s1.pending, s1.timer)]
                       ELSE s1)
         ELSE s1

\* triggerNow() without its clearTimeout.
triggerNow_KeepsTimer(s, cb) ==
    IF ~s.running THEN s ELSE run(s, cb)

triggerNow(s, cb) ==
    IF ~s.running THEN s
    ELSE run(IF s.timer # NullTimer
             THEN [s EXCEPT !.pending = clearTimeout(s.pending, s.timer),
                            !.timer = NullTimer]
             ELSE s,
             cb)

dispose(s) == [stop(s) EXCEPT !.disposed = TRUE]

\* ---------------------------------------------------------------- actions

CallbackKinds == {"async", "throws"}

\* The longest interval the inputs give: the cap of sinceDone.
MaxIntervalMs ==
    LET all == {TimesThousand(normalizeInterval(x)) : x \in SecondsInputs} IN
    CHOOSE m \in all : \A n \in all : n <= m

\* The fields of the poller and the timer table as a handler leaves them.
InstallFields(s) ==
    /\ intervalMs' = s.intervalMs
    /\ timer' = s.timer
    /\ running' = s.running
    /\ executing' = s.executing
    /\ disposed' = s.disposed
    /\ pending' = s.pending
    /\ inflight' = s.inflight
    /\ began' = s.began
    /\ failure' = s.failure

\* The state a handler leaves, within the model's bounds.
Install(s) ==
    /\ \E t \in {s} :
         /\ Cardinality(DOMAIN t.pending) <= MaxTimers
         /\ t.inflight <= MaxInflight
         /\ InstallFields(t)
    /\ UNCHANGED calcVars
    /\ UNCHANGED <<overlayVars, slider>>

BoolName(b) == IF b THEN "true" ELSE "false"

Start(immediate) ==
    /\ \E cb \in CallbackKinds : Install(start(Self, immediate, cb))
    /\ lastOp' = "start(" \o BoolName(immediate) \o ")"
    /\ UNCHANGED pageVars
    /\ midFlight' = "none"
    /\ UNCHANGED sinceDone

Stop ==
    /\ Install(stop(Self))
    /\ lastOp' = "stop"
    /\ UNCHANGED pageVars
    /\ midFlight' = "none"
    /\ UNCHANGED sinceDone

SetIntervalSeconds(seconds) ==
    /\ Install(setIntervalSeconds(Self, seconds))
    /\ lastOp' = "setIntervalSeconds"
    /\ UNCHANGED pageVars
    /\ midFlight' = IF inflight > 0 /\ running /\ intervalMs' # intervalMs
                    THEN "set"
                    ELSE IF midFlight = "set" /\ inflight > 0 THEN "set"
                    ELSE "none"
    /\ UNCHANGED sinceDone

TriggerNow ==
    /\ \E cb \in CallbackKinds : Install(triggerNow(Self, cb))
    /\ lastOp' = "triggerNow"
    /\ UNCHANGED pageVars
    /\ midFlight' = "none"
    /\ UNCHANGED sinceDone

Dispose ==
    /\ Install(dispose(Self))
    /\ lastOp' = "dispose"
    /\ UNCHANGED pageVars
    /\ midFlight' = "none"
    /\ UNCHANGED sinceDone

\* A due timer fires: the browser drops it and calls () => this.run().
TimerFires(id) ==
    /\ id \in DOMAIN pending
    /\ pending[id] = 0
    /\ \E cb \in CallbackKinds :
         Install(run([Self EXCEPT !.pending = clearTimeout(pending, id)], cb))
    /\ lastOp' = "timer"
    /\ UNCHANGED pageVars
    /\ midFlight' = IF began' THEN "none" ELSE midFlight
    /\ sinceDone' = IF began' /\ ~executing' THEN 0 ELSE sinceDone

\* The promise the callback returned settles (or the value it returned is
\* awaited): run() resumes after its await, through catch and finally.
CallbackSettles(outcome) ==
    /\ inflight > 0
    /\ LET s == [Self EXCEPT !.inflight = @ - 1] IN
         Install(finish(IF outcome = "rejected" THEN catchError(s) ELSE s))
    /\ lastOp' = "settled"
    /\ UNCHANGED pageVars
    /\ midFlight' = IF midFlight = "set" /\ running THEN "done" ELSE "none"
    /\ sinceDone' = 0

Advance ==
    /\ pending' = [i \in DOMAIN pending |-> Max(0, pending[i] - Quantum)]
    /\ sinceDone' = Min(MaxIntervalMs, sinceDone + Quantum)
    /\ lastOp' = "advance"
    /\ UNCHANGED pageVars
    /\ began' = FALSE
    /\ failure' = "none"
    /\ UNCHANGED calcVars
    /\ UNCHANGED <<overlayVars, slider>>
    /\ UNCHANGED <<intervalMs, timer, running, executing, disposed,
                   inflight, midFlight>>

\* `new AdjustableUpdater(callback, intervalSeconds)`.
Init ==
    /\ \E seconds \in SecondsInputs :
         intervalMs = TimesThousand(normalizeInterval(seconds))
    /\ timer = NullTimer
    /\ running = FALSE
    /\ executing = FALSE
    /\ disposed = FALSE
    /\ pending = <<>>
    /\ inflight = 0
    /\ began = FALSE
    /\ lastOp = "new"
    /\ sinceDone = 0
    /\ midFlight = "none"
    /\ failure = "none"
    /\ control = ""
    /\ created = TRUE
    /\ issued = 0
    /\ outstanding = {}
    /\ arg = NaN
    /\ points = <<>>
    /\ req = <<>>
    /\ tiles = <<>>
    /\ earlier = <<>>
    /\ NoOverlay
    /\ NoSlider

Next ==
    \/ \E immediate \in BOOLEAN : Start(immediate)
    \/ Stop
    \/ \E seconds \in SecondsInputs : SetIntervalSeconds(seconds)
    \/ TriggerNow
    \/ Dispose
    \/ \E id \in TimerIds : TimerFires(id)
    \/ \E outcome \in {"resolved", "rejected"} : CallbackSettles(outcome)
    \/ Advance

Spec == Init /\ [][Next]_vars

\* ------------------------------------------ the poller, never stopped
\*
\* The poller is started and used, never stopped or disposed.  Timers that
\* are due fire, time passes and an execution that was begun settles.

\* Every execution in flight schedules one more tick when it settles: the
\* user's calls leave room for it in the timer table.
LeavesRoom == Cardinality(DOMAIN pending') + inflight' <= MaxLive

LiveStart(immediate) == Start(immediate) /\ LeavesRoom
LiveSetIntervalSeconds(seconds) == SetIntervalSeconds(seconds) /\ LeavesRoom
LiveTriggerNow == TriggerNow /\ LeavesRoom

\* A call by the poller's user.
UserOps == {"start(true)", "start(false)", "setIntervalSeconds", "triggerNow"}

LiveNext ==
    \/ \E immediate \in BOOLEAN : LiveStart(immediate)
    \/ \E seconds \in SecondsInputs : LiveSetIntervalSeconds(seconds)
    \/ LiveTriggerNow
    \/ \E id \in TimerIds : TimerFires(id)
    \/ \E outcome \in {"resolved", "rejected"} : CallbackSettles(outcome)
    \/ Advance

LiveSpec ==
    /\ Init
    /\ [][LiveNext]_vars
    /\ WF_vars(\E id \in TimerIds : TimerFires(id))
    /\ WF_vars(\E outcome \in {"resolved", "rejected"} : CallbackSettles(outcome))
    /\ WF_vars(Advance)

\* ------------------------------------------- the overlay (2gis/heatmap.ts)

\* The module's list of callbacks and the map's polygons, as a handler
\* finds them.  A polygon is [render, tile, destroyed]: the call and the
\* tile it was created for, and how often destroy() was called on it.
Overlay ==
    [callbacks |-> polygonRemoveCallbacks,
     polygons |-> polygons,
     last |-> lastRender]

\* The number of renderHeatmap calls so far.
Renders(o) == IF o.last = <<>> THEN 0 ELSE o.last.n

SetMax(S) == CHOOSE m \in S : \A n \in S : n <= m

\* rect.count + rect.neighborCount * 0.125, in eighths; a field the tile
\* does not have reads as undefined and the sum is NaN.
weighted(rect) ==
    IF {"count", "neighborCount"} \subseteq DOMAIN rect
    THEN Fin(rect.count * 8 + rect.neighborCount)
    ELSE NaN

maxCount_NoFloor(data) ==
    IF \E i \in 1..Len(data) : ~isFinite(weighted(data[i]))
    THEN NaN
    ELSE Fin(SetMax({weighted(data[i]).v : i \in 1..Len(data)} \cup {0}))

\* Math.max(...data.map(weighted), 1), in eighths; NaN if a value is NaN.
maxCount(data) ==
    IF \E i \in 1..Len(data) : ~isFinite(weighted(data[i]))
    THEN NaN
    ELSE Fin(SetMax({weighted(data[i]).v : i \in 1..Len(data)} \cup {8}))

leftHue(colorblind) == IF colorblind THEN 260 ELSE 160
rightHue(colorblind) == IF colorblind THEN 230 ELSE 0

\* getColorForCount(count, maxCount, colorblind), count and maxCount in
\* eighths: transparent, or the ratio count / maxCount (num over den; NaN
\* as 0 over 0) and the hue computed from it.
getColorForCount(count, max, colorblind) ==
    IF isFinite(count) /\ count.v * 10 <= 16
    THEN [kind |-> "transparent"]
    ELSE IF ~isFinite(count) \/ ~isFinite(max) \/ max.v = 0
    THEN [kind |-> "hsl", ratio |-> [num |-> 0, den |-> 0], hue |-> NaN]
    ELSE [kind |-> "hsl",
          ratio |-> [num |-> count.v, den |-> max.v],
          hue |-> Fin((leftHue(colorblind) * max.v
                        + (rightHue(colorblind) - leftHue(colorblind))
                            * count.v) \div max.v)]

\* The number of entries of the callback list that destroy polygon p.
RECURSIVE Occurrences(_, _)
Occurrences(list, p) ==
    IF list = <<>> THEN 0
    ELSE (IF Head(list) = p THEN 1 ELSE 0) + Occurrences(Tail(list), p)

killOld_NoClear(o) ==
    [o EXCEPT !.polygons =
        [p \in DOMAIN o.polygons |->
           [o.polygons[p] EXCEPT
              !.destroyed = @ + Occurrences(o.callbacks, p)]]]

\* polygonRemoveCallbacks.forEach((cb) => cb()); the list's length = 0.
killOld(o) ==
    [o EXCEPT !.polygons =
        [p \in DOMAIN o.polygons |->
           [o.polygons[p] EXCEPT
              !.destroyed = @ + Occurrences(o.callbacks, p)]],
              !.callbacks = <<>>]

\* The rest of renderHeatmap: maxCount, then a polygon and a callback per
\* tile of heatmap.data.
drawTiles(o, heatmap, colorblind) ==
    LET data == heatmap.data
        n == Len(o.polygons)
        max == maxCount(data)
    IN [callbacks |-> o.callbacks \o [i \in 1..Len(data) |-> n + i],
        polygons |-> o.polygons \o
            [i \in 1..Len(data) |->
               [render |-> Renders(o) + 1, tile |-> i, destroyed |-> 0]],
        last |-> [n |-> Renders(o) + 1,
                  heatmap |-> heatmap,
                  maxCount |-> max,
                  colors |-> [i \in 1..Len(data) |->
                                getColorForCount(weighted(data[i]), max,
                                                 colorblind)]]]

renderHeatmap(o, heatmap, colorblind) == drawTiles(killOld(o), heatmap, colorblind)

\* The overlay as a handler leaves it.
InstallOverlay(o) ==
    /\ polygonRemoveCallbacks' = o.callbacks
    /\ polygons' = o.polygons
    /\ lastRender' = o.last

\* ------------------------------------------------------ page wiring (index.ts)

\* Texts of the #update-interval input.
ControlTexts == {"", "abc", "0", "-10", "20", "100"}

\* parseInt(text): a number of milliseconds, as [kind, v] with v in ms.
parseInt(text) ==
    CASE text = "0" -> [kind |-> "finite", v |-> 0]
      [] text = "-10" -> [kind |-> "finite", v |-> -10]
      [] text = "20" -> [kind |-> "finite", v |-> 20]
      [] text = "100" -> [kind |-> "finite", v |-> 100]
      [] OTHER -> [kind |-> "NaN", v |-> 0]

\* `parseInt($("#update-interval").val()) || 1000`: NaN and 0 are falsy.
getUpdateInterval(text) ==
    LET n == parseInt(text) IN
    IF n.kind = "NaN" \/ n.v = 0 THEN DefaultIntervalMs ELSE n.v

\* `getUpdateInterval() / 1000`: seconds, in hundredths (the texts above are
\* whole multiples of 10 ms, so the division is exact).
IntervalSeconds(text) == Fin(getUpdateInterval(text) \div 10)

\* `new AdjustableUpdater(callback, intervalSeconds)`.
newUpdater(seconds) ==
    [intervalMs |-> TimesThousand(normalizeInterval(seconds)),
     timer |-> NullTimer, running |-> FALSE, executing |-> FALSE,
     disposed |-> FALSE, pending |-> pending, inflight |-> 0, began |-> FALSE,
     failure |-> "none"]

\* The page's callback is an async function that calls getHeatmap without
\* awaiting it: the promise it returns is already resolved, so run() resumes
\* after its await in a microtask, before any other handler of the page.
callbackReturns(s) ==
    IF s.began THEN finish([s EXCEPT !.inflight = @ - 1]) ELSE s

\* The callback's body: one getHeatmap query is issued per invocation.
IssueQuery(s) ==
    IF s.began
    THEN /\ issued < MaxQueries
         /\ issued' = issued + 1
         /\ outstanding' = outstanding \cup {issued + 1}
    ELSE UNCHANGED <<issued, outstanding>>

\* map.on("styleload"): the updater is created and started at once.
StyleLoad ==
    /\ ~created
    /\ created' = TRUE
    /\ LET s == start(newUpdater(IntervalSeconds(control)), TRUE, "async") IN
         /\ IssueQuery(s)
         /\ Install(callbackReturns(s))
    /\ lastOp' = "styleload"
    /\ sinceDone' = IF began' THEN 0 ELSE sinceDone
    /\ UNCHANGED <<control, midFlight>>

IntervalInput_StartsPolling(text) ==
    /\ control' = text
    /\ IF created
       THEN /\ Install(setIntervalSeconds(Self, IntervalSeconds(text)))
            /\ UNCHANGED <<issued, outstanding>>
       ELSE LET s == start(newUpdater(IntervalSeconds(text)), TRUE, "async")
            IN /\ IssueQuery(s)
               /\ Install(callbackReturns(s))
    /\ lastOp' = "input"
    /\ UNCHANGED <<created, sinceDone, midFlight>>

\* $("#update-interval").on("input"): the user edits the interval.
IntervalInput(text) ==
    /\ control' = text
    /\ IF created
       THEN Install(setIntervalSeconds(Self, IntervalSeconds(text)))
       ELSE Install(Self)
    /\ lastOp' = "input"
    /\ UNCHANGED <<created, issued, outstanding, sinceDone, midFlight>>

\* A due timer of the page's updater fires.
PageTimerFires(id) ==
    /\ id \in DOMAIN pending
    /\ pending[id] = 0
    /\ LET s == run([Self EXCEPT !.pending = clearTimeout(pending, id)],
                    "async") IN
         /\ IssueQuery(s)
         /\ Install(callbackReturns(s))
    /\ lastOp' = "timer"
    /\ sinceDone' = IF began' THEN 0 ELSE sinceDone
    /\ UNCHANGED <<control, created, midFlight>>

\* How a fetch of /api/heatmap can end.
FetchOutcomes == {"ok", "not ok", "network failure", "malformed body"}

\* The tile lists the server answers with.
PageData == {<<[count |-> 3, neighborCount |-> 16]>>}

\* The bodies the server answers query q with: a HeatmapResponse.
Bodies(q) == {[heatmap |-> [data |-> d, of |-> q]] : d \in PageData}

Resolved(value) == [state |-> "resolved", value |-> value]
Rejected(reason) == [state |-> "rejected", value |-> reason]

\* getHeatmap(req): how its promise settles.  `await fetch(...)` rejects on
\* a network failure and `await response.json()` on a malformed body;
\* neither await is inside a try.
getHeatmap(outcome, body) ==
    CASE outcome = "network failure" -> Rejected("TypeError")
      [] outcome = "not ok" -> Resolved([error |-> "Failed to fetch heatmap"])
      [] outcome = "malformed body" -> Rejected("SyntaxError")
      [] OTHER -> Resolved(body)

thenHandler_ClearsOnError(o, res) ==
    IF "error" \in DOMAIN res
    THEN renderHeatmap(o, [data |-> <<>>, of |-> 0], FALSE)
    ELSE IF Cardinality(DOMAIN res) >= 1
    THEN renderHeatmap(o, res.heatmap, FALSE)
    ELSE o

\* The callback's `.then((res) => ...)`: an error value is logged; else the
\* first value of the response is rendered (colorblind is not passed).
thenHandler(o, res) ==
    IF "error" \in DOMAIN res
    THEN o
    ELSE IF Cardinality(DOMAIN res) >= 1
    THEN renderHeatmap(o, res.heatmap, FALSE)
    ELSE o

\* The server answers a query (or the request fails): the promise of
\* getHeatmap settles and, if it resolved, the .then handler of the
\* callback runs.
Response(q, outcome) ==
    /\ q \in outstanding
    /\ outstanding' = outstanding \ {q}
    /\ \E body \in Bodies(q) :
         LET p == getHeatmap(outcome, body) IN
         /\ answer' = p
         /\ IF p.state = "resolved"
            THEN InstallOverlay(thenHandler(Overlay, p.value))
            ELSE UNCHANGED <<polygonRemoveCallbacks, polygons, lastRender>>
    /\ InstallFields(Self)
    /\ lastOp' = "response"
    /\ UNCHANGED <<calcVars, slider>>
    /\ UNCHANGED <<control, created, issued, sinceDone, midFlight>>

\* The page before the map's styleload event: `let updater = null`.
PageInit ==
    /\ intervalMs = 0
    /\ timer = NullTimer
    /\ running = FALSE
    /\ executing = FALSE
    /\ disposed = FALSE
    /\ pending = <<>>
    /\ inflight = 0
    /\ began = FALSE
    /\ lastOp = "load"
    /\ sinceDone = 0
    /\ midFlight = "none"
    /\ failure = "none"
    /\ control \in ControlTexts
    /\ created = FALSE
    /\ issued = 0
    /\ outstanding = {}
    /\ arg = NaN
    /\ points = <<>>
    /\ req = <<>>
    /\ tiles = <<>>
    /\ earlier = <<>>
    /\ NoOverlay
    /\ NoSlider

PageNext ==
    \/ StyleLoad
    \/ \E text \in ControlTexts : IntervalInput(text)
    \/ \E id \in TimerIds : PageTimerFires(id)
    \/ \E q \in 1..MaxQueries, outcome \in FetchOutcomes : Response(q, outcome)
    \/ Advance

PageSpec == PageInit /\ [][PageNext]_vars

\* ---------------------------------------------------- the interval clamp

\* Seconds values tried on the constructor and on setIntervalSeconds.
WideSeconds ==
    {Fin(n) : n \in (-MaxSeconds)..MaxSeconds} \cup {NaN, PosInf, NegInf}

\* `new AdjustableUpdater(callback, seconds)`, the argument kept.
ClampInit ==
    /\ arg \in WideSeconds
    /\ intervalMs = TimesThousand(normalizeInterval(arg))
    /\ timer = NullTimer
    /\ running = FALSE
    /\ executing = FALSE
    /\ disposed = FALSE
    /\ pending = <<>>
    /\ inflight = 0
    /\ began = FALSE
    /\ lastOp = "new"
    /\ sinceDone = 0
    /\ midFlight = "none"
    /\ failure = "none"
    /\ control = ""
    /\ created = TRUE
    /\ issued = 0
    /\ outstanding = {}
    /\ points = <<>>
    /\ req = <<>>
    /\ tiles = <<>>
    /\ earlier = <<>>
    /\ NoOverlay
    /\ NoSlider

\* setIntervalSeconds(seconds), the argument kept.
ClampSet(seconds) ==
    /\ InstallFields(setIntervalSeconds(Self, seconds))
    /\ arg' = seconds
    /\ lastOp' = "setIntervalSeconds"
    /\ UNCHANGED <<sinceDone, midFlight, pageVars, points, req, tiles, earlier>>
    /\ UNCHANGED <<overlayVars, slider>>

ClampNext == \E seconds \in WideSeconds : ClampSet(seconds)

ClampSpec == ClampInit /\ [][ClampNext]_vars

\* ------------------------------------------------- the tile grid (api/heatmap)
\*
\* A coordinate or tile size is a binary floating-point number, as in the
\* program, but of SigBits significant bits and with FracBits bits below
\* the binary point at the least: it is held as a whole number of units of
\* 2^-FracBits, and every arithmetic result is rounded to the nearest
\* number of SigBits significant bits, ties to the even one.

RECURSIVE Pow2(_)
Pow2(k) == IF k = 0 THEN 1 ELSE 2 * Pow2(k - 1)

\* The number 1.
One == Pow2(FracBits)

Abs(x) == IF x < 0 THEN -x ELSE x

\* The largest whole number <= a / b, and the least >= a / b, for b # 0.
Floor(a, b) == IF b > 0 THEN a \div b ELSE (-a) \div (-b)
Ceil(a, b) == -Floor(-a, b)

\* The gap between neighbouring numbers at magnitude n.
RECURSIVE Spacing(_)
Spacing(n) == IF n < Pow2(SigBits) THEN 1 ELSE 2 * Spacing(n \div 2)

\* The number nearest to the exact value num / den (den > 0).
round(num, den) ==
    LET u == Spacing(Abs(num) \div den)
        d == den * u
        low == Floor(num, d)
        rest == num - low * d
        m == IF 2 * rest < d THEN low
             ELSE IF 2 * rest > d THEN low + 1
             ELSE IF low % 2 = 0 THEN low ELSE low + 1
    IN m * u

\* a + b, a - b, a * b and a / b (b # 0) on two finite numbers.
plus(a, b) == round(a + b, 1)
minus(a, b) == round(a - b, 1)
times(a, b) == round(a * b, One)
over(a, b) == IF b > 0 THEN round(a * One, b) ELSE round(-(a * One), -b)

\* Math.floor and Math.ceil.
floor(a) == Floor(a, One) * One
ceil(a) == Ceil(a, One) * One

\* a / b in JavaScript, a and b finite: a number [kind, v].
Divide(a, b) ==
    IF b # 0 THEN Fin(over(a, b))
    ELSE IF a > 0 THEN PosInf
    ELSE IF a < 0 THEN NegInf
    ELSE NaN

Point(lat, long) == [lat |-> lat, long |-> long]

orient_LatOnly(topLeft, bottomRight) ==
    LET swapLat == topLeft.lat < bottomRight.lat
    IN [topLeft |-> Point(IF swapLat THEN bottomRight.lat ELSE topLeft.lat,
                          topLeft.long),
        bottomRight |-> Point(IF swapLat THEN topLeft.lat ELSE bottomRight.lat,
                              bottomRight.long)]

\* The two conditional swaps at the head of makeRequest: the two objects
\* as they are once both swaps are done.
orient(topLeft, bottomRight) ==
    LET swapLat == topLeft.lat < bottomRight.lat
        swapLong == topLeft.long > bottomRight.long
    IN [topLeft |-> Point(IF swapLat THEN bottomRight.lat ELSE topLeft.lat,
                          IF swapLong THEN bottomRight.long ELSE topLeft.long),
        bottomRight |-> Point(IF swapLat THEN topLeft.lat ELSE bottomRight.lat,
                              IF swapLong THEN topLeft.long ELSE bottomRight.long)]

\* makeRequest (the variant that orients the corners).  The swaps assign to
\* the fields of the caller's two objects, and the request's area holds
\* those same objects: `a` and `b` are the objects after the call.
makeRequest(topLeft, bottomRight, countX, countY) ==
    LET a == orient(topLeft, bottomRight).topLeft
        b == orient(topLeft, bottomRight).bottomRight
    IN [area |-> [topLeft |-> a, bottomRight |-> b],
        tileWidth |-> Divide(minus(b.long, a.long), countX * One),
        tileHeight |-> Divide(minus(a.lat, b.lat), countY * One)]

alignStart(value, step) ==
    IF step > 0
    THEN times(floor(over(value, step)), step)
    ELSE times(ceil(over(value, step)), step)

\* latContinue / longContinue.
continue(x, step, end) == IF step > 0 THEN x < end ELSE x > end

\* The values a loop `for (x = start; continue(x); x += step)` takes.
RECURSIVE Walk(_, _, _)
Walk(x, step, end) ==
    IF continue(x, step, end)
    THEN <<x>> \o Walk(plus(x, step), step, end)
    ELSE <<>>

\* The cell at origin (lat, lng): its corners, whatever the sign of a step.
cell(lat, lng, latStep, longStep) ==
    LET nextLat == plus(lat, latStep)
        nextLng == plus(lng, longStep)
    IN [topLeft |-> Point(Max(lat, nextLat), Min(lng, nextLng)),
        bottomRight |-> Point(Min(lat, nextLat), Max(lng, nextLng))]

\* The three `continue` tests: the cell is skipped.
skipped(c, area) ==
    LET minLat == Min(area.topLeft.lat, area.bottomRight.lat)
        maxLat == Max(area.topLeft.lat, area.bottomRight.lat)
        minLong == Min(area.topLeft.long, area.bottomRight.long)
        maxLong == Max(area.topLeft.long, area.bottomRight.long)
    IN \/ (c.topLeft.lat < minLat /\ c.bottomRight.lat < minLat)
       \/ (c.bottomRight.lat > maxLat /\ c.topLeft.lat > maxLat)
       \/ (c.bottomRight.long < minLong \/ c.topLeft.long > maxLong)

\* Math.floor(Math.random() * 100), the draw given in thousandths.
randomCount(draw) == (draw * 100) \div 1000

tile_LatLongSwapped(c, draw) ==
    [count |-> randomCount(draw),
     topLeft |-> Point(c.topLeft.long, c.topLeft.lat),
     bottomRight |-> Point(c.bottomRight.long, c.bottomRight.lat)]

\* data.push({count, topLeft, bottomRight}).
tile(c, draw) ==
    [count |-> randomCount(draw),
     topLeft |-> c.topLeft,
     bottomRight |-> c.bottomRight]

RECURSIVE Flatten(_)
Flatten(ss) == IF ss = <<>> THEN <<>> ELSE Head(ss) \o Flatten(Tail(ss))

\* The two nested loops: the cells in the order they are visited, less the
\* skipped ones.
gridWalk(area, tileWidth, tileHeight) ==
    LET lats == Walk(alignStart(area.topLeft.lat, tileHeight), tileHeight,
                     area.bottomRight.lat)
        longs == Walk(alignStart(area.topLeft.long, tileWidth), tileWidth,
                      area.bottomRight.long)
        row(lat) == [j \in 1..Len(longs) |->
                       cell(lat, longs[j], tileHeight, tileWidth)]
        cells == Flatten([i \in 1..Len(lats) |-> row(lats[i])])
    IN SelectSeq(cells, LAMBDA c : ~skipped(c, area))

\* The tiles the walk pushes; draws are the values Math.random() returns,
\* used in turn.
pushed(r, draws) ==
    LET cells == gridWalk(r.area, r.tileWidth.v, r.tileHeight.v) IN
    [i \in 1..Len(cells) |->
       tile(cells[i], draws[((i - 1) % Len(draws)) + 1])]

\* Without the guard a zero step is aligned to NaN, and no comparison with
\* NaN holds: the walk is entered and pushes nothing.
getMockHeatmap_NoZeroGuard(r, draws) ==
    IF r.tileWidth.v = 0 \/ r.tileHeight.v = 0
    THEN [data |-> <<>>, walked |-> TRUE]
    ELSE [data |-> pushed(r, draws), walked |-> TRUE]

\* getMockHeatmap(req): the tiles of the heatmap it resolves with, and
\* whether the walk was entered.
getMockHeatmap(r, draws) ==
    IF r.tileWidth.v = 0 \/ r.tileHeight.v = 0
    THEN [data |-> <<>>, walked |-> FALSE]
    ELSE [data |-> pushed(r, draws), walked |-> TRUE]

\* Values of Math.random(), in thousandths.
Draws == {0, 999}

Coords == (-MaxCoord)..MaxCoord
Steps == (-MaxStep)..MaxStep
Degrees == {d * One : d \in (-MaxDegree)..MaxDegree}
Counts == (-1)..MaxCount

\* The queries given to getMockHeatmap directly.
DirectRequests ==
    {[area |-> [topLeft |-> Point(a, b), bottomRight |-> Point(c, d)],
      tileWidth |-> Fin(w), tileHeight |-> Fin(h)] :
       a \in Coords, b \in Coords, c \in Coords, d \in Coords,
       w \in Steps, h \in Steps}

\* The arguments given to makeRequest: the caller's two objects and counts.
RequestArgs ==
    {[topLeft |-> Point(a, b), bottomRight |-> Point(c, d),
      countX |-> x, countY |-> y] :
       a \in Degrees, b \in Degrees, c \in Degrees, d \in Degrees,
       x \in Counts, y \in Counts}

\* No page and no updater: only the grid functions are run.
NoUpdater ==
    /\ arg = NaN
    /\ intervalMs = 0
    /\ timer = NullTimer
    /\ running = FALSE
    /\ executing = FALSE
    /\ disposed = FALSE
    /\ pending = <<>>
    /\ inflight = 0
    /\ began = FALSE
    /\ sinceDone = 0
    /\ midFlight = "none"
    /\ failure = "none"
    /\ control = ""
    /\ created = FALSE
    /\ issued = 0
    /\ outstanding = {}

GridInit ==
    /\ \/ /\ lastOp = "query"
          /\ req \in DirectRequests
          /\ points = <<>>
       \/ /\ lastOp = "args"
          /\ req = <<>>
          /\ \E c \in RequestArgs : points = [before |-> c, after |-> c]
    /\ tiles = <<>>
    /\ earlier = <<>>
    /\ NoOverlay
    /\ NoSlider
    /\ NoUpdater

\* The caller runs makeRequest on its two point objects.
MakeRequest ==
    /\ lastOp = "args"
    /\ LET c == points.before
           r == makeRequest(c.topLeft, c.bottomRight, c.countX, c.countY)
       IN /\ req' = r
          /\ points' = [points EXCEPT
                          !.after.topLeft = r.area.topLeft,
                          !.after.bottomRight = r.area.bottomRight]
    /\ lastOp' = "makeRequest"
    /\ UNCHANGED <<arg, tiles, earlier, pageVars, overlayVars, slider>>
    /\ UNCHANGED <<intervalMs, timer, running, executing, disposed, pending,
                   inflight, began, sinceDone, midFlight, failure>>

\* getMockHeatmap runs on the request at hand (finite tile sizes).
GetMockHeatmap ==
    /\ lastOp \in {"query", "makeRequest"}
    /\ isFinite(req.tileWidth)
    /\ isFinite(req.tileHeight)
    /\ \E d1 \in Draws, d2 \in Draws :
         tiles' = getMockHeatmap(req, <<d1, d2>>)
    /\ lastOp' = "getMockHeatmap"
    /\ UNCHANGED <<arg, points, req, earlier, pageVars, overlayVars, slider>>
    /\ UNCHANGED <<intervalMs, timer, running, executing, disposed, pending,
                   inflight, began, sinceDone, midFlight, failure>>

GridNext == MakeRequest \/ GetMockHeatmap

GridSpec == GridInit /\ [][GridNext]_vars

\* ---------------------------------------------- the same grid, map panned
\*
\* The page asks for the tiles of the viewport, the user pans the map, and
\* the page asks again with the same tile size.

ViewHeight == 2 * One
PanLats == 0..MaxPanLat
PanSteps == {One, One + 1}
PanShifts == 1..MaxShift

PanRequests ==
    {[area |-> [topLeft |-> Point(lat, 0),
                bottomRight |-> Point(plus(lat, ViewHeight), One)],
      tileWidth |-> Fin(One), tileHeight |-> Fin(h)] :
       lat \in PanLats, h \in PanSteps}

PanInit ==
    /\ lastOp = "query"
    /\ req \in PanRequests
    /\ points = <<>>
    /\ tiles = <<>>
    /\ earlier = <<>>
    /\ NoOverlay
    /\ NoSlider
    /\ NoUpdater

\* The map is panned by shift: the next query is for the moved viewport.
Pan(shift) ==
    /\ lastOp = "getMockHeatmap"
    /\ earlier = <<>>
    /\ req' = [req EXCEPT
                 !.area.topLeft.lat = plus(@, shift),
                 !.area.bottomRight.lat = plus(@, shift)]
    /\ earlier' = tiles
    /\ tiles' = <<>>
    /\ lastOp' = "query"
    /\ UNCHANGED <<arg, points, pageVars, overlayVars, slider>>
    /\ UNCHANGED <<intervalMs, timer, running, executing, disposed, pending,
                   inflight, began, sinceDone, midFlight, failure>>

PanNext ==
    \/ GetMockHeatmap
    \/ \E shift \in PanShifts : Pan(shift)

PanSpec == PanInit /\ [][PanNext]_vars

\* ------------------------------------------------ renderHeatmap on its own

\* The tiles a heatmap is made of: count and neighborCount.
Rects ==
    {[count |-> 0, neighborCount |-> 0],
     [count |-> 0, neighborCount |-> 2],
     [count |-> 3, neighborCount |-> 16]}

RECURSIVE SeqsUpTo(_, _)
SeqsUpTo(S, n) ==
    IF n = 0 THEN {<<>>}
    ELSE LET shorter == SeqsUpTo(S, n - 1) IN
         shorter \cup {Append(s, x) : s \in shorter, x \in S}

\* The heatmaps handed to renderHeatmap; `of` is the query a heatmap
\* answers (0: none).
Heatmaps == {[data |-> d, of |-> 0] : d \in SeqsUpTo(Rects, MaxTiles)}

RenderInit ==
    /\ lastOp = "load"
    /\ points = <<>>
    /\ req = <<>>
    /\ tiles = <<>>
    /\ earlier = <<>>
    /\ NoOverlay
    /\ NoSlider
    /\ NoUpdater

RenderHeatmap(heatmap, colorblind) ==
    /\ Renders(Overlay) < MaxRenders
    /\ InstallOverlay(renderHeatmap(Overlay, heatmap, colorblind))
    /\ lastOp' = "renderHeatmap"
    /\ UNCHANGED <<answer, calcVars, pageVars, slider>>
    /\ UNCHANGED <<intervalMs, timer, running, executing, disposed, pending,
                   inflight, began, sinceDone, midFlight, failure>>

RenderNext ==
    \E heatmap \in Heatmaps, colorblind \in BOOLEAN :
        RenderHeatmap(heatmap, colorblind)

RenderSpec == RenderInit /\ [][RenderNext]_vars

\* ------------------------------------- the time range of a query (index.ts)

SliderTypes == {"hours", "days-of-week"}

\* TimeSlider: the number of steps of a slider of the given type.
stepsOf(type) == IF type = "hours" THEN 24 ELSE 7

\* What timeSlider.getRange() can return for a slider of the given type.
SliderRanges(type) ==
    {range \in [left : 0..(stepsOf(type) - 1),
                right : 0..(stepsOf(type) - 1)] :
       range.left <= range.right}

\* The callback's startHour and endHour for the slider's type and range.
hourBounds(type, range) ==
    IF type = "hours"
    THEN [startHour |-> range.left, endHour |-> range.right]
    ELSE [startHour |-> range.left * 24, endHour |-> range.right * 24]

\* A slider of either type showing any range; no query made yet.
HoursInit ==
    /\ lastOp = "load"
    /\ \E type \in SliderTypes : \E range \in SliderRanges(type) :
         points = [type |-> type, range |-> range]
    /\ req = <<>>
    /\ tiles = <<>>
    /\ earlier = <<>>
    /\ NoOverlay
    /\ NoSlider
    /\ NoUpdater

\* The updater's callback reads the slider and derives the hours it hands
\* to makeRequest.
DeriveHours ==
    /\ lastOp = "load"
    /\ req' = hourBounds(points.type, points.range)
    /\ lastOp' = "callback"
    /\ UNCHANGED <<arg, points, tiles, earlier, pageVars, overlayVars, slider>>
    /\ UNCHANGED <<intervalMs, timer, running, executing, disposed, pending,
                   inflight, began, sinceDone, midFlight, failure>>

HoursNext == DeriveHours

HoursSpec == HoursInit /\ [][HoursNext]_vars

\* ------------------------------------------------- TimeSlider (part_003)
\*
\* leftValue and rightValue are JavaScript numbers.  A number is held as a
\* whole number of units of 1 / One; the products and quotients below are
\* computed exactly, which is what the program's doubles give for these
\* values (a result is either exactly halfway between two integers or
\* further from halfway than a double's rounding error).

\* The number n.
Index(n) == n * One

\* Number.isInteger.
isInteger(v) == v % One = 0

\* clamp(v, min, max).
clamp(v, min, max) == Min(Max(v, min), max)

\* Math.round of the number num / den (den > 0): the nearest integer, the
\* upper one of two that are equally near.
mathRound(num, den) == Floor(2 * num + den, 2 * den) * One

\* new TimeSlider(options): options.type and this.state.
TimeSlider(options) ==
    LET steps == stepsOf(options.type)
        defaultLeft == IF "initialLeft" \in DOMAIN options
                       THEN options.initialLeft ELSE Index(0)
        defaultRight == IF "initialRight" \in DOMAIN options
                        THEN options.initialRight ELSE Index(steps - 1)
    IN [type |-> options.type,
        isDragging |-> FALSE,
        activeHandle |-> "null",
        leftValue |-> clamp(defaultLeft, Index(0), Index(steps - 1)),
        rightValue |-> clamp(defaultRight, Index(0), Index(steps - 1)),
        steps |-> steps]

getRange(s) == [left |-> s.leftValue, right |-> s.rightValue]

setRange(s, left, right) ==
    LET max == Index(s.steps - 1) IN
    [s EXCEPT !.leftValue = clamp(Min(left, right), Index(0), max),
              !.rightValue = clamp(Max(left, right), Index(0), max)]

setType(s, newType) ==
    IF newType = s.type THEN s
    ELSE LET steps == stepsOf(newType)
             left == clamp(mathRound(s.leftValue * (steps - 1),
                                     One * (s.steps - 1)),
                           Index(0), Index(steps - 1))
             right == clamp(mathRound(s.rightValue * (steps - 1),
                                      One * (s.steps - 1)),
                            left, Index(steps - 1))
         IN [s EXCEPT !.type = newType,
                      !.steps = steps,
                      !.leftValue = left,
                      !.rightValue = right]

\* percentToValue(percent), percent a whole number of percent.
percentToValue(s, percent) ==
    LET hundredths == clamp(percent * (s.steps - 1), 0, (s.steps - 1) * 100)
    IN mathRound(hundredths, 100)

\* pointerdown on a handle.
startDrag(s, handle) ==
    [s EXCEPT !.isDragging = TRUE, !.activeHandle = handle]

\* pointermove on the document, the pointer at percent of the track.
onPointerMove(s, percent) ==
    IF ~s.isDragging \/ s.activeHandle = "null" THEN s
    ELSE LET value == percentToValue(s, percent) IN
         IF s.activeHandle = "left"
         THEN [s EXCEPT !.leftValue = clamp(value, Index(0), s.rightValue)]
         ELSE [s EXCEPT !.rightValue =
                          clamp(value, s.leftValue, Index(s.steps - 1))]

endDrag(s) == [s EXCEPT !.isDragging = FALSE, !.activeHandle = "null"]

\* pointerdown on the track, outside the handles: the closest handle moves.
trackPointerDown(s, percent) ==
    LET value == percentToValue(s, percent)
        distLeft == Abs(value - s.leftValue)
        distRight == Abs(value - s.rightValue)
    IN IF distLeft < distRight
       THEN [s EXCEPT !.leftValue = clamp(value, Index(0), s.rightValue)]
       ELSE [s EXCEPT !.rightValue =
                        clamp(value, s.leftValue, Index(s.steps - 1))]

Keys == {"ArrowLeft", "ArrowDown", "ArrowRight", "ArrowUp", "Enter"}

\* keydown on a handle.
onKey(s, key, handle) ==
    LET delta == IF key \in {"ArrowLeft", "ArrowDown"} THEN -1
                 ELSE IF key \in {"ArrowRight", "ArrowUp"} THEN 1
                 ELSE 0
    IN IF delta = 0 THEN s
       ELSE IF handle = "left"
       THEN [s EXCEPT !.leftValue =
                        clamp(s.leftValue + Index(delta), Index(0),
                              s.rightValue)]
       ELSE [s EXCEPT !.rightValue =
                        clamp(s.rightValue + Index(delta), s.leftValue,
                              Index(s.steps - 1))]

Handles == {"left", "right"}

\* Where the pointer is, in percent of the track's width from its left end.
Percents == {-10, 0, 25, 50, 100, 130}

\* The initial indices given to the constructor: integers.
InitialIndices == {Index(-1), Index(0), Index(3), Index(30)}

\* The options of the constructor: either initial index may be left out,
\* and initialLeft <= initialRight when both are given.
SliderOptions ==
    {[type |-> t] : t \in SliderTypes}
    \cup {[type |-> t, initialLeft |-> l] :
            t \in SliderTypes, l \in InitialIndices}
    \cup {[type |-> t, initialRight |-> r] :
            t \in SliderTypes, r \in InitialIndices}
    \cup {o \in [type : SliderTypes, initialLeft : InitialIndices,
                 initialRight : InitialIndices] :
            o.initialLeft <= o.initialRight}

\* The numbers given to setRange: -1, 0, 1.5, 2, 5 and 30.
RangeArgs ==
    {Index(-1), Index(0), Index(1) + One \div 2, Index(2), Index(5),
     Index(30)}

SliderInit ==
    /\ lastOp = "new"
    /\ \E options \in SliderOptions : slider = TimeSlider(options)
    /\ points = <<>>
    /\ req = <<>>
    /\ tiles = <<>>
    /\ earlier = <<>>
    /\ NoOverlay
    /\ NoUpdater

\* What a handler of the slider leaves alone.
besideSlider ==
    <<intervalMs, timer, running, executing, disposed, pending, inflight,
      began, sinceDone, midFlight, failure, pageVars, calcVars, overlayVars>>

SetRange(left, right) ==
    /\ slider' = setRange(slider, left, right)
    /\ lastOp' = "setRange"
    /\ UNCHANGED besideSlider

SetType(newType) ==
    /\ slider' = setType(slider, newType)
    /\ lastOp' = "setType"
    /\ UNCHANGED besideSlider

StartDrag(handle) ==
    /\ slider' = startDrag(slider, handle)
    /\ lastOp' = "pointerdown"
    /\ UNCHANGED besideSlider

PointerMove(percent) ==
    /\ slider' = onPointerMove(slider, percent)
    /\ lastOp' = "pointermove"
    /\ UNCHANGED besideSlider

EndDrag ==
    /\ slider' = endDrag(slider)
    /\ lastOp' = "pointerup"
    /\ UNCHANGED besideSlider

TrackPointerDown(percent) ==
    /\ slider' = trackPointerDown(slider, percent)
    /\ lastOp' = "track"
    /\ UNCHANGED besideSlider

KeyDown(key, handle) ==
    /\ slider' = onKey(slider, key, handle)
    /\ lastOp' = "keydown"
    /\ UNCHANGED besideSlider

SliderNext ==
    \/ \E left \in RangeArgs, right \in RangeArgs : SetRange(left, right)
    \/ \E newType \in SliderTypes : SetType(newType)
    \/ \E handle \in Handles : StartDrag(handle)
    \/ \E percent \in Percents : PointerMove(percent)
    \/ EndDrag
    \/ \E percent \in Percents : TrackPointerDown(percent)
    \/ \E key \in Keys, handle \in Handles : KeyDown(key, handle)

SliderSpec == SliderInit /\ [][SliderNext]_vars

\* ----------------------------------------------------------------- claims

StartOps == {"start(true)", "start(false)"}

\* The fields of the poller, the timer table and the executions in flight.
PollerState == <<intervalMs, timer, running, executing, disposed, pending,
                 inflight>>

\* The timer table with one handle removed.
Without(table, id) == [i \in DOMAIN table \ {id} |-> table[i]]

\* The step leaves the timers of `base` as they were and adds exactly one
\* timer, held in this.timer and due one full interval from now.
OneTickAdded(base) ==
    /\ timer' # NullTimer
    /\ timer' \notin DOMAIN base
    /\ DOMAIN pending' = DOMAIN base \cup {timer'}
    /\ pending'[timer'] = intervalMs'
    /\ \A i \in DOMAIN base : pending'[i] = base[i]

\* C1: at most one execution of the callback is in flight at any time, and an
\* invocation begins only when no earlier invocation is still in flight.
C1_AtMostOneInFlight ==
    /\ inflight <= 1
    /\ began => inflight = (IF executing THEN 1 ELSE 0)

\* C1 witness: a tick fired while an execution was in flight and began nothing.
C1_Witness ==
    /\ lastOp = "timer"
    /\ ~began
    /\ executing
    /\ inflight = 1

\* C2: in every reachable state at most one scheduled-but-not-yet-fired tick
\* exists.
C2_AtMostOnePendingTick == Cardinality(DOMAIN pending) <= 1

\* C3: in the page wiring two heatmap queries are never in flight at once: a
\* query is issued only after the previous query has been answered.
C3_OneQueryInFlight == Cardinality(outstanding) <= 1

\* C4: stop() begins nothing, aborts nothing, clears the pending tick it
\* holds and sets running to false; while the poller is not running no step
\* other than start() begins an invocation or makes it running; and an
\* execution settling while it is not running schedules no tick.
C4_StopHalts ==
    [][/\ lastOp' = "stop" =>
            /\ ~running'
            /\ ~began'
            /\ inflight' = inflight
            /\ executing' = executing
            /\ timer' = NullTimer
            /\ pending' = Without(pending, timer)
       /\ (~running /\ lastOp' \notin StartOps) => (~began' /\ ~running')
       /\ (~running /\ lastOp' = "settled") =>
            (pending' = pending /\ timer' = timer)]_vars

\* C4 witness: an execution that was in flight when stop() was called has
\* settled, and no tick is pending.
C4_Witness ==
    /\ lastOp = "settled"
    /\ ~running
    /\ ~disposed
    /\ ~executing
    /\ pending = <<>>

\* C5: dispose() leaves the poller disposed and not running; once disposed it
\* stays disposed, never runs and no step begins an invocation; and dispose()
\* on a disposed poller changes nothing.
C5_DisposeIsFinal ==
    [][/\ lastOp' = "dispose" => (disposed' /\ ~running' /\ ~began')
       /\ disposed => (disposed' /\ ~running' /\ ~began')
       /\ (disposed /\ lastOp' = "dispose") => UNCHANGED PollerState]_vars

\* C5 witness: start(true) was called on a disposed poller.
C5_Witness ==
    /\ disposed
    /\ lastOp = "start(true)"
    /\ ~running
    /\ ~began

\* C6: setIntervalSeconds changing the interval of a Scheduled poller cancels
\* the pending tick and schedules exactly one new tick, due one full new
\* interval after the call.
C6_RescheduleFromNow ==
    [][(/\ lastOp' = "setIntervalSeconds"
        /\ intervalMs' # intervalMs
        /\ running
        /\ ~executing
        /\ timer \in DOMAIN pending)
       => /\ timer \notin DOMAIN pending'
          /\ OneTickAdded(Without(pending, timer))]_vars

\* C6 witness: the interval of a Scheduled poller was changed after time had
\* passed on its tick, and the one pending tick is due a full interval away.
C6_Witness ==
    /\ lastOp = "setIntervalSeconds"
    /\ running
    /\ ~executing
    /\ inflight = 0
    /\ sinceDone >= Quantum
    /\ DOMAIN pending = {timer}
    /\ pending[timer] = intervalMs
    /\ intervalMs = MaxIntervalMs

\* C7: setIntervalSeconds called while an execution is in flight schedules
\* no tick.
C7_NoTickWhileExecuting ==
    [][(lastOp' = "setIntervalSeconds" /\ inflight > 0)
       => /\ DOMAIN pending' \subseteq DOMAIN pending
          /\ \A i \in DOMAIN pending' : pending'[i] = pending[i]]_vars

\* C8: after the interval was changed during an execution and the execution
\* settled (poller running, no triggerNow since), the next invocation begins
\* no sooner than one new interval after the execution settled.
C8_NextTickHonoursNewInterval ==
    [][(lastOp' = "timer" /\ began' /\ midFlight = "done")
       => sinceDone >= intervalMs]_vars

\* C9: triggerNow() on a running poller that is not executing cancels the
\* pending tick and begins an execution; on a poller that is not running it
\* changes nothing; on an executing poller it begins no execution.
C9_TriggerNow ==
    [][lastOp' = "triggerNow" =>
         /\ (running /\ ~executing) =>
              /\ began'
              /\ executing' =>
                   (pending' = Without(pending, timer) /\ timer' = NullTimer)
              /\ ~executing' => OneTickAdded(Without(pending, timer))
         /\ ~running => (UNCHANGED PollerState /\ ~began')
         /\ (running /\ executing) =>
              (~began' /\ executing' /\ inflight' = inflight)]_vars

\* C9 witness: triggerNow() cancelled a tick that was not yet due and began
\* an execution.
C9_Witness ==
    /\ lastOp = "triggerNow"
    /\ began
    /\ executing
    /\ inflight = 1
    /\ timer = NullTimer
    /\ pending = <<>>
    /\ sinceDone < intervalMs

\* C10: start() on a running or disposed poller changes nothing; from Idle,
\* start(true) begins an execution at once and start(false) schedules exactly
\* one tick and begins nothing.
C10_Start ==
    [][lastOp' \in StartOps =>
         /\ (running \/ disposed) => (UNCHANGED PollerState /\ ~began')
         /\ (~running /\ ~disposed /\ ~executing /\ lastOp' = "start(true)")
              => (began' /\ running')
         /\ (~running /\ ~disposed /\ ~executing /\ lastOp' = "start(false)")
              => (~began' /\ running' /\ ~executing'
                  /\ OneTickAdded(pending))]_vars

\* C10 witness: start(false) from Idle left one tick pending.
C10_Witness ==
    /\ lastOp = "start(false)"
    /\ running
    /\ ~executing
    /\ ~began
    /\ DOMAIN pending = {timer}
    /\ pending[timer] = intervalMs

\* C11: a failure of the callback (a synchronous throw or a rejected promise)
\* is caught inside run() and never leaves it; the step that handles it
\* resets executing, and on a running poller schedules one tick due a full
\* interval away, as after a successful execution.
C11_FailureKeepsLoop ==
    [][/\ failure' # "escaped"
       /\ (lastOp' = "settled" /\ failure' = "caught") =>
            /\ ~executing'
            /\ inflight' = inflight - 1
            /\ IF running /\ ~disposed
               THEN OneTickAdded(pending)
               ELSE pending' = pending /\ timer' = timer
       /\ (began' /\ failure' = "caught") =>
            /\ ~executing'
            /\ inflight' = inflight
            /\ timer' \in DOMAIN pending'
            /\ pending'[timer'] = intervalMs']_vars

\* C11 witness: the promise of an execution was rejected on a running
\* poller, and the next tick is pending.
C11_Witness ==
    /\ lastOp = "settled"
    /\ failure = "caught"
    /\ running
    /\ ~executing
    /\ timer \in DOMAIN pending
    /\ pending[timer] = intervalMs

\* C12: the constructor and setIntervalSeconds give an interval of exactly
\* 50 ms for a seconds value that is <= 0, NaN or infinite, and of
\* seconds * 1000 ms for a finite positive one; intervalMs > 0 always.
C12_IntervalClamped ==
    /\ intervalMs > 0
    /\ intervalMs = (IF arg.kind # "finite" \/ arg.v <= 0
                     THEN 50
                     ELSE arg.v * 10)

\* C12 witness: setIntervalSeconds(NaN) replaced another interval by 50 ms.
C12_Witness ==
    /\ lastOp = "setIntervalSeconds"
    /\ arg = NaN
    /\ intervalMs = 50


\* ------------------------------------------------------ claims on the grid

TileSet == {tiles.data[i] : i \in 1..Len(tiles.data)}

MinLat(a) == Min(a.topLeft.lat, a.bottomRight.lat)
MaxLat(a) == Max(a.topLeft.lat, a.bottomRight.lat)
MinLong(a) == Min(a.topLeft.long, a.bottomRight.long)
MaxLong(a) == Max(a.topLeft.long, a.bottomRight.long)

\* The unit square with its low corner at (i, j) lies within rectangle a.
UnitWithin(i, j, a) ==
    /\ MinLat(a) <= i /\ i + 1 <= MaxLat(a)
    /\ MinLong(a) <= j /\ j + 1 <= MaxLong(a)

\* Every unit square of the query rectangle lies within some tile.  Edges
\* are whole units, so this is: every point of the rectangle is in a tile.
Covered(a, ts) ==
    \A i \in MinLat(a)..(MaxLat(a) - 1), j \in MinLong(a)..(MaxLong(a) - 1) :
       \E t \in ts : UnitWithin(i, j, t)

\* The step on an axis points from the starting corner to the far corner.
PointsToward(from, to, step) ==
    \/ (to > from /\ step > 0)
    \/ (to < from /\ step < 0)

StepsPointInward(r) ==
    /\ PointsToward(r.area.topLeft.lat, r.area.bottomRight.lat, r.tileHeight.v)
    /\ PointsToward(r.area.topLeft.long, r.area.bottomRight.long, r.tileWidth.v)

\* C13: for a query whose steps are non-zero and point from area.topLeft
\* toward area.bottomRight, the tiles getMockHeatmap returns cover every
\* point of the query rectangle.
C13_GridCoverage ==
    (lastOp = "getMockHeatmap" /\ StepsPointInward(req))
        => Covered(req.area, TileSet)

\* The same, for the queries whose two steps are positive.
C13_PositiveStepsCover ==
    (/\ lastOp = "getMockHeatmap"
     /\ StepsPointInward(req)
     /\ req.tileHeight.v > 0
     /\ req.tileWidth.v > 0)
        => Covered(req.area, TileSet)

\* Two rectangles share interior points.
InteriorsMeet(s, t) ==
    /\ Max(MinLat(s), MinLat(t)) < Min(MaxLat(s), MaxLat(t))
    /\ Max(MinLong(s), MinLong(t)) < Min(MaxLong(s), MaxLong(t))

\* The arguments are a normalized rectangle of positive extent, with
\* positive counts, whose corners lie on multiples of the tile size.
OnTileMultiples(c) ==
    /\ c.topLeft.lat > c.bottomRight.lat
    /\ c.topLeft.long < c.bottomRight.long
    /\ c.countX > 0
    /\ c.countY > 0
    /\ LET w == over(minus(c.bottomRight.long, c.topLeft.long), c.countX * One)
           h == over(minus(c.topLeft.lat, c.bottomRight.lat), c.countY * One)
       IN /\ w > 0
          /\ h > 0
          /\ c.topLeft.lat % h = 0
          /\ c.bottomRight.lat % h = 0
          /\ c.topLeft.long % w = 0
          /\ c.bottomRight.long % w = 0

\* C14: makeRequest on a normalized rectangle whose corners lie on multiples
\* of the tile size, followed by getMockHeatmap on that request, returns
\* exactly countX * countY tiles that cover the rectangle without overlaps.
C14_EndToEnd ==
    (/\ lastOp = "getMockHeatmap"
     /\ points # <<>>
     /\ OnTileMultiples(points.before))
        => /\ Len(tiles.data) = points.before.countX * points.before.countY
           /\ Covered(req.area, TileSet)
           /\ \A i, j \in 1..Len(tiles.data) :
                i # j => ~InteriorsMeet(tiles.data[i], tiles.data[j])

SameRectangle(s, t) ==
    /\ s.topLeft = t.topLeft
    /\ s.bottomRight = t.bottomRight

EarlierTileSet == {earlier.data[i] : i \in 1..Len(earlier.data)}

\* C15: the tiles of two queries of the same tile size, for a viewport and
\* for the same viewport shifted, lie on one grid: a tile of one and a tile
\* of the other are the same rectangle or have disjoint interiors.
C15_ViewportIndependent ==
    (lastOp = "getMockHeatmap" /\ earlier # <<>>)
        => \A s \in EarlierTileSet, t \in TileSet :
              SameRectangle(s, t) \/ ~InteriorsMeet(s, t)

\* Tile t and rectangle a share a point, on each axis.
Overlaps(t, a) ==
    /\ MinLat(t) <= MaxLat(a) /\ MinLat(a) <= MaxLat(t)
    /\ MinLong(t) <= MaxLong(a) /\ MinLong(a) <= MaxLong(t)

\* C16: every tile getMockHeatmap returns for a query with non-zero steps
\* overlaps the query rectangle on the latitude and on the longitude axis.
C16_NoTileOutside ==
    lastOp = "getMockHeatmap"
        => \A t \in TileSet : Overlaps(t, req.area)

\* A query answered with a tile that reaches beyond the query rectangle.
C16_Witness ==
    /\ lastOp = "getMockHeatmap"
    /\ \E t \in TileSet :
         /\ MaxLat(t) > MaxLat(req.area)
         /\ MinLong(t) < MinLong(req.area)

\* C17: a query with tileWidth = 0 or tileHeight = 0, whatever its area, is
\* answered with an empty tile list and the grid walk is not entered.
C17_DegenerateIsEmpty ==
    (/\ lastOp = "getMockHeatmap"
     /\ (req.tileWidth.v = 0 \/ req.tileHeight.v = 0))
        => /\ tiles.data = <<>>
           /\ ~tiles.walked

\* A query of a rectangle with extent, one step zero, has been answered.
C17_Witness ==
    /\ lastOp = "getMockHeatmap"
    /\ req.tileHeight.v = 0
    /\ req.tileWidth.v > 0
    /\ req.area.topLeft.lat > req.area.bottomRight.lat
    /\ req.area.topLeft.long < req.area.bottomRight.long
    /\ tiles.data = <<>>

\* C18: every tile the mock generator emits has a count >= 0 and a
\* neighborCount = 0, so the value the renderer computes from the two is a
\* number >= 0.
C18_AggregateFields ==
    lastOp = "getMockHeatmap"
        => \A t \in TileSet :
              /\ "count" \in DOMAIN t
              /\ t.count >= 0
              /\ "neighborCount" \in DOMAIN t
              /\ t.neighborCount = 0
              /\ weighted(t).kind = "finite"
              /\ weighted(t).v >= 0

\* C19: the area of a request built by makeRequest has topLeft.lat >=
\* bottomRight.lat and topLeft.long <= bottomRight.long, whatever the order
\* of the two points on either axis, and building a request from that area
\* again gives the same area.
C19_Normalized ==
    (lastOp = "makeRequest")
        => /\ req.area.topLeft.lat >= req.area.bottomRight.lat
           /\ req.area.topLeft.long <= req.area.bottomRight.long
           /\ makeRequest(req.area.topLeft, req.area.bottomRight,
                          points.before.countX, points.before.countY).area
                = req.area

\* A request built from two points given in the inverted order on both axes.
C19_Witness ==
    /\ lastOp = "makeRequest"
    /\ points.before.topLeft.lat < points.before.bottomRight.lat
    /\ points.before.topLeft.long > points.before.bottomRight.long
    /\ req.area.topLeft.lat > req.area.bottomRight.lat
    /\ req.area.topLeft.long < req.area.bottomRight.long

\* C20: after makeRequest returns, the caller's two point objects hold the
\* latitude and longitude they held before the call.
C20_ArgumentsUntouched ==
    (lastOp = "makeRequest")
        => /\ points.after.topLeft = points.before.topLeft
           /\ points.after.bottomRight = points.before.bottomRight

\* C21: makeRequest returns no request when countX or countY is zero or
\* negative: a request it has returned was built from positive counts, and
\* its tile sizes are finite and not of inverted sign.
C21_InvalidCountsRejected ==
    (lastOp = "makeRequest")
        => /\ points.before.countX > 0
           /\ points.before.countY > 0
           /\ isFinite(req.tileWidth)
           /\ isFinite(req.tileHeight)
           /\ req.tileWidth.v >= 0
           /\ req.tileHeight.v >= 0


\* ---------------------------------------------------- claims on the overlay

\* The polygons created for the tiles of the latest renderHeatmap call.
LatestPolygons ==
    {p \in DOMAIN polygons : polygons[p].render = lastRender.n}

\* C22: after any sequence of renderHeatmap calls the polygons alive are
\* exactly those created for the tiles of the latest call, one per tile;
\* every polygon of an earlier call has been destroyed exactly once; and the
\* callback list holds exactly one entry per drawn tile.
C22_OverlayReplaced ==
    lastRender # <<>>
        => /\ \A p \in DOMAIN polygons :
                IF p \in LatestPolygons
                THEN polygons[p].destroyed = 0
                ELSE polygons[p].destroyed = 1
           /\ Cardinality(LatestPolygons) = Len(lastRender.heatmap.data)
           /\ {polygons[p].tile : p \in LatestPolygons}
                = 1..Len(lastRender.heatmap.data)
           /\ Len(polygonRemoveCallbacks) = Len(lastRender.heatmap.data)
           /\ {polygonRemoveCallbacks[i] : i \in 1..Len(polygonRemoveCallbacks)}
                = LatestPolygons

\* A third call has replaced two earlier overlays that had tiles.
C22_Witness ==
    /\ lastRender # <<>>
    /\ lastRender.n = 3
    /\ Len(lastRender.heatmap.data) = 2
    /\ \E p, q \in DOMAIN polygons :
         /\ polygons[p].render = 1
         /\ polygons[q].render = 2
         /\ polygons[p].destroyed = 1
         /\ polygons[q].destroyed = 1


\* ------------------------------------------------ claims on the page's queries

\* The latest getHeatmap promise resolved to a tagged error value.
AnsweredWithError(a) ==
    /\ a # <<>>
    /\ a.state = "resolved"
    /\ "error" \in DOMAIN a.value

\* C23: when getHeatmap answers a poll with an error value, renderHeatmap is
\* not called, no polygon is destroyed or added, and the poller is left as
\* it was: its ticks stay scheduled.
C23_ErrorKeepsOverlay ==
    [][(lastOp' = "response" /\ AnsweredWithError(answer'))
          => /\ UNCHANGED <<polygonRemoveCallbacks, polygons, lastRender>>
             /\ UNCHANGED <<running, disposed, executing, timer, pending,
                            intervalMs>>]_vars

\* An error value has arrived while tiles are drawn and a tick is pending.
C23_Witness ==
    /\ lastOp = "response"
    /\ AnsweredWithError(answer)
    /\ polygonRemoveCallbacks # <<>>
    /\ \E p \in DOMAIN polygons : polygons[p].destroyed = 0
    /\ running
    /\ timer \in DOMAIN pending

\* C24: the promise of getHeatmap never rejects: whatever the outcome of the
\* fetch (non-2xx, network failure, malformed body), it resolves, and to a
\* tagged error value unless the response was good.
C24_FailureIsAValue ==
    (lastOp = "response" /\ answer # <<>>)
        => /\ answer.state = "resolved"
           /\ \/ "error" \in DOMAIN answer.value
              \/ "heatmap" \in DOMAIN answer.value

\* C25: before the map's styleload event there is no poller: no query has
\* been issued, none is in flight, and no tick is scheduled, whatever the
\* user did to the update-interval input.
C25_NoQueryBeforeStyleLoad ==
    ~created
        => /\ issued = 0
           /\ outstanding = {}
           /\ inflight = 0
           /\ ~running
           /\ pending = <<>>

\* The interval input was changed before the styleload event.
C25_Witness ==
    /\ ~created
    /\ lastOp = "input"
    /\ control = "20"
    /\ issued = 0


\* --------------------------------------------- claims on the time range

\* C26: for a slider of either type, the start and end hour the callback
\* derives from getRange() are hours of the day: 0 <= start <= end <= 24.
C26_HourBounds ==
    lastOp = "callback"
        => /\ 0 <= req.startHour
           /\ req.startHour <= req.endHour
           /\ req.endHour <= 24

\* The same for a slider of type "hours" only.
C26_HoursModeBounds ==
    (lastOp = "callback" /\ points.type = "hours")
        => /\ 0 <= req.startHour
           /\ req.startHour <= req.endHour
           /\ req.endHour <= 24


\* C27: maxCount is the largest weighted value of the tiles rendered and at
\* least 1 (8 eighths), also for no tiles and for all-zero tiles; and every
\* tile's value over maxCount lies in [0, 1], which is the ratio the colour
\* of a coloured tile is computed from.
C27_MaxCountFloor ==
    lastRender # <<>>
        => LET data == lastRender.heatmap.data
               max == lastRender.maxCount
           IN /\ isFinite(max)
              /\ max.v >= 8
              /\ \A i \in 1..Len(data) :
                   /\ 0 <= weighted(data[i]).v
                   /\ weighted(data[i]).v <= max.v
                   /\ lastRender.colors[i].kind = "hsl"
                        => /\ lastRender.colors[i].ratio.den = max.v
                           /\ lastRender.colors[i].ratio.num
                                = weighted(data[i]).v
              /\ \/ max.v = 8
                 \/ \E i \in 1..Len(data) : weighted(data[i]).v = max.v

\* Tiles whose values are all zero have been rendered.
C27_Witness ==
    /\ lastRender # <<>>
    /\ Len(lastRender.heatmap.data) = 2
    /\ \A i \in 1..2 : weighted(lastRender.heatmap.data[i]).v = 0
    /\ lastRender.maxCount = Fin(8)


\* ------------------------------------------- claims on the poller's progress

\* C28: a poller that was started and is never stopped or disposed, whose
\* executions all settle and whose due timers fire, invokes the callback
\* infinitely often: whatever calls of setIntervalSeconds and triggerNow
\* were made, the callback is invoked again unless the user calls again
\* first.
C28_Liveness == []<>(~running \/ began \/ lastOp \in UserOps)

\* A tick has invoked the callback while a second timer, left by a
\* setIntervalSeconds made during an execution, is still pending.
C28_Witness ==
    /\ running
    /\ began
    /\ lastOp = "timer"
    /\ inflight >= 1
    /\ Cardinality(DOMAIN pending) >= 1


\* ------------------------------------------------ claims on the poller's state

\* C29: between operations, a poller that is running, not disposed and has
\* no execution in flight holds a scheduled tick that is pending; and a tick
\* that fires while running is false begins no execution, leaves running
\* false and schedules nothing.
C29_NoStall ==
    /\ []((running /\ ~disposed /\ inflight = 0) =>
            (timer # NullTimer /\ timer \in DOMAIN pending))
    /\ [][(~running /\ lastOp' = "timer") =>
            /\ ~began'
            /\ ~running'
            /\ inflight' = inflight
            /\ DOMAIN pending' \subseteq DOMAIN pending]_vars

\* A tick that stop() did not cancel has fired on the stopped poller and
\* begun nothing.
C29_Witness ==
    /\ lastOp = "timer"
    /\ ~running
    /\ ~disposed
    /\ ~began
    /\ inflight = 0


\* C30: in every reachable state the poller's interval is at least the
\* 50 ms safeguard, whatever seconds value the constructor or
\* setIntervalSeconds was given.
C30_MinimumInterval == intervalMs >= 50


\* ------------------------------------- claims on the grid and its callers

\* The rectangles of a tile list, whatever the counts.
Rectangles(data) ==
    {[topLeft |-> data[i].topLeft, bottomRight |-> data[i].bottomRight] :
       i \in 1..Len(data)}

\* The queries for the rectangle of r with the tile size magnitudes of r:
\* the corners in either order on each axis, each step of either sign.
SameQueries(r) ==
    {[area |-> [topLeft |-> Point(lat1, long1),
                bottomRight |-> Point(lat2, long2)],
      tileWidth |-> Fin(w), tileHeight |-> Fin(h)] :
       lat1 \in {r.area.topLeft.lat, r.area.bottomRight.lat},
       lat2 \in {r.area.topLeft.lat, r.area.bottomRight.lat},
       long1 \in {r.area.topLeft.long, r.area.bottomRight.long},
       long2 \in {r.area.topLeft.long, r.area.bottomRight.long},
       w \in {r.tileWidth.v, -r.tileWidth.v},
       h \in {r.tileHeight.v, -r.tileHeight.v}}
    \ {q \in DirectRequests :
         \/ (q.area.topLeft.lat = q.area.bottomRight.lat
               /\ r.area.topLeft.lat # r.area.bottomRight.lat)
         \/ (q.area.topLeft.long = q.area.bottomRight.long
               /\ r.area.topLeft.long # r.area.bottomRight.long)}

HasExtent(a) == MinLat(a) < MaxLat(a) /\ MinLong(a) < MaxLong(a)

\* C31: the rectangles getMockHeatmap returns for a query are those it
\* returns for the same rectangle with its corners in the other order on
\* an axis and for a step of the other sign; and for non-zero steps and a
\* rectangle of positive extent they are a non-empty set of tiles that
\* covers the rectangle.
C31_NoCallerDiscipline ==
    (lastOp = "getMockHeatmap" /\ points = <<>>)
        => /\ \A q \in SameQueries(req) :
                Rectangles(getMockHeatmap(q, <<0>>).data)
                    = Rectangles(tiles.data)
           /\ (/\ req.tileWidth.v # 0
               /\ req.tileHeight.v # 0
               /\ HasExtent(req.area))
                  => /\ TileSet # {}
                     /\ Covered(req.area, TileSet)


\* C32: the overlay is only ever replaced by the response to a query issued
\* later than the one it shows: a response to an earlier query that arrives
\* after a later query's response was rendered is not rendered.
C32_IssueOrder ==
    [][(/\ lastOp' = "response"
        /\ lastRender # <<>>
        /\ lastRender' # lastRender)
          => lastRender'.heatmap.of > lastRender.heatmap.of]_vars


\* ------------------------------------------------ claims on the TimeSlider

\* The two values are in order and within the slider's steps.
RangeOrdered(range, steps) ==
    /\ Index(0) <= range.left
    /\ range.left <= range.right
    /\ range.right <= Index(steps - 1)

\* C33: after any sequence of drags, track clicks, key presses, setRange
\* and setType calls on a slider constructed with default or integer
\* initial indices, getRange() returns integers left and right with
\* 0 <= left <= right <= steps - 1, steps being 24 for hours and 7 for days
\* of the week.
C33_RangeInvariant ==
    slider # <<>>
        => /\ slider.steps = (IF slider.type = "hours" THEN 24 ELSE 7)
           /\ isInteger(getRange(slider).left)
           /\ isInteger(getRange(slider).right)
           /\ RangeOrdered(getRange(slider), slider.steps)

\* The same without the two values being integers.
C33_OrderedWithinSteps ==
    slider # <<>>
        => /\ slider.steps = (IF slider.type = "hours" THEN 24 ELSE 7)
           /\ RangeOrdered(getRange(slider), slider.steps)

\* No handler other than setRange turns an integer value into a fraction.
C33_OnlySetRangeBreaksIntegers ==
    [][(/\ slider # <<>>
        /\ isInteger(slider.leftValue)
        /\ isInteger(slider.rightValue)
        /\ lastOp' # "setRange")
          => /\ isInteger(slider'.leftValue)
             /\ isInteger(slider'.rightValue)]_vars

=============================================================================
